---- MODULE Spec2Model ----
(***************************************************************************)
(* Model of scripts/generate-stats.js: the metrics aggregator              *)
(* (fetchJson, listOrgRepos, fetchOrgMetrics) and the payload writer       *)
(* (main and its catch handler), run on the Node.js event loop against a   *)
(* remote API whose responses are fixed for the run.                       *)
(***************************************************************************)
EXTENDS Integers, Sequences, FiniteSets, TLC

\* Largest number of full pages the modelled API serves before its last page.
MaxPages == 2

\* generate-stats.js:34  const perPage = 100
perPage == 100

-----------------------------------------------------------------------------
(* JavaScript values: every value carries its type tag.                    *)

Undefined == [t |-> "undefined"]
Null == [t |-> "null"]
Num(n) == [t |-> "number", v |-> n]
Str(s) == [t |-> "string", v |-> s]
Obj(fields) == [t |-> "object", f |-> fields]
\* the string a template literal builds from its parts (never empty here)
Template(parts) == [t |-> "template", parts |-> parts]
Arr(items) == [t |-> "array", items |-> items]

IsNullish(x) == x.t \in {"undefined", "null"}

\* ToBoolean(x) = false
Falsy(x) ==
    \/ IsNullish(x)
    \/ (x.t = "number" /\ x.v = 0)
    \/ (x.t = "string" /\ x.v = "")

\* Array.isArray(x)
IsArray(x) == x.t = "array"

\* o.k for an object o: an absent property reads as undefined
Get(o, k) == IF k \in DOMAIN o.f THEN o.f[k] ELSE Undefined

\* a variant of ?? that also passes over 0 and the empty string
NullishOrFalsy(a, b) == IF IsNullish(a) \/ Falsy(a) THEN b ELSE a

\* a ?? b
NullishOr(a, b) == IF IsNullish(a) THEN b ELSE a

\* a || b
FalsyOr(a, b) == IF Falsy(a) THEN b ELSE a

\* new Error(message) and the built-in errors raised by the runtime
Err(name, message) == [t |-> "error", name |-> name, message |-> message]

-----------------------------------------------------------------------------
(* Module-level constants of the script.                                   *)

\* process.env.GITHUB_ORG is not set in the modelled runs
EnvGithubOrg == Undefined

GITHUB_ORG == FalsyOr(EnvGithubOrg, Str("abstract-data"))

OUTPUT_FILE == "profile/stats.json"

\* process.env.GITHUB_TOKEN: unset, set to the empty string, or a token
Tokens == {Undefined, Str(""), Str("ghp_token")}

\* a variant of the headers that always carries an Authorization header
HEADERSAlwaysAuthorized(token) ==
    [Accept |-> "application/vnd.github+json",
     Authorization |-> <<"Bearer", IF token = Undefined THEN "undefined" ELSE token.v>>]

HEADERS(token) ==
    IF Falsy(token)
    THEN [Accept |-> "application/vnd.github+json"]
    ELSE [Accept |-> "application/vnd.github+json",
          Authorization |-> <<"Bearer", token.v>>]

OrgUrl == [path |-> <<"orgs", GITHUB_ORG.v>>]

ReposUrl(p) ==
    [path |-> <<"orgs", GITHUB_ORG.v, "repos">>,
     per_page |-> perPage, page |-> p, type |-> "all", sort |-> "updated"]

-----------------------------------------------------------------------------
(* The remote API: rows, bodies and responses it can serve.                *)

Repo(name, url, pushed, stars, forks) ==
    Obj([name |-> Str(name), html_url |-> Str(url), pushed_at |-> pushed,
         stargazers_count |-> stars, forks_count |-> forks])

\* a row without star and fork counts and never pushed
BareRepo(name, url) ==
    Obj([name |-> Str(name), html_url |-> Str(url), pushed_at |-> Null])

RepoAlpha ==
    Repo("alpha", "https://github.com/abstract-data/alpha",
         Str("2024-03-01T00:00:00Z"), Num(5), Num(2))
RepoBeta == BareRepo("beta", "https://github.com/abstract-data/beta")
RepoGamma ==
    Repo("gamma", "https://github.com/abstract-data/gamma",
         Str("2024-05-01T00:00:00Z"), Num(1), Num(0))
RepoDelta ==
    Repo("delta", "https://github.com/abstract-data/delta",
         Str("2024-05-01T00:00:00Z"), Num(0), Num(3))
RepoEpsilon ==
    Repo("epsilon", "https://github.com/abstract-data/epsilon",
         Str("2023-12-31T23:59:59Z"), Num(2), Num(1))

\* a page of n rows: `first`, then `second`, then copies of `rest`
RowsOf(n, first, second, rest) ==
    [i \in 1..n |-> IF i = 1 THEN first ELSE IF i = 2 THEN second ELSE rest]

OrgFull ==
    Obj([login |-> Str("abstract-data"), public_repos |-> Num(7),
         total_private_repos |-> Num(4), followers |-> Num(12),
         public_members |-> Num(3)])
OrgSparse == Obj([login |-> Str("abstract-data")])
OrgZero ==
    Obj([login |-> Str("abstract-data"), public_repos |-> Num(0),
         total_private_repos |-> Num(0), followers |-> Num(0),
         public_members |-> Num(0)])
\* what a caller who is not a member of the organization is shown
OrgPublicOnly ==
    Obj([login |-> Str("abstract-data"), public_repos |-> Num(3),
         followers |-> Num(9)])

\* A response body is a text, named here by what it holds; JsonParse is
\* what JSON.parse makes of it, NotJson standing for a SyntaxError.
NotJson == [t |-> "not_json"]

JsonParse(text) ==
    CASE text = "org-full" -> OrgFull
      [] text = "org-sparse" -> OrgSparse
      [] text = "org-zero" -> OrgZero
      [] text = "org-public" -> OrgPublicOnly
      [] text = "null" -> Null
      [] text = "message: Not Found" -> Obj([message |-> Str("Not Found")])
      [] text = "message: API rate limit exceeded" ->
           Obj([message |-> Str("API rate limit exceeded")])
      [] text = "documentation_url" ->
           Obj([documentation_url |-> Str("https://docs.github.com/rest")])
      [] text = "[]" -> Arr(<<>>)
      [] text = "full-a" -> Arr(RowsOf(perPage, RepoAlpha, RepoBeta, RepoEpsilon))
      [] text = "full-b" -> Arr(RowsOf(perPage, RepoGamma, RepoDelta, RepoBeta))
      [] text = "short-1" -> Arr(RowsOf(1, RepoBeta, RepoBeta, RepoBeta))
      [] text = "short-37" -> Arr(RowsOf(37, RepoBeta, RepoGamma, RepoAlpha))
      [] text = "short-99" ->
           Arr(RowsOf(perPage - 1, RepoEpsilon, RepoBeta, RepoBeta))
      [] OTHER -> NotJson

NetworkError == [kind |-> "network_error"]
Http(status, body) == [kind |-> "response", status |-> status, body |-> body]

OrgResponses ==
    { NetworkError,
      Http(404, "message: Not Found"),
      Http(502, "<html>Bad Gateway</html>"),
      Http(304, ""),
      Http(200, "<html>Maintenance</html>"),
      Http(200, "org-full"),
      Http(200, "org-sparse"),
      Http(200, "org-zero"),
      Http(200, "org-public"),
      Http(200, "null") }

FullPages == { Http(200, "full-a"), Http(200, "full-b") }

LastPages ==
    { NetworkError,
      Http(403, "message: API rate limit exceeded"),
      Http(200, "<html>Maintenance</html>"),
      Http(200, "documentation_url"),
      Http(200, "[]"),
      Http(200, "short-1"),
      Http(200, "short-37"),
      Http(200, "short-99") }

\* The repository listing the API serves: up to MaxPages full pages and then
\* one last page that ends the listing.
PageListings ==
    UNION { { full \o <<last>> : full \in [1..k -> FullPages], last \in LastPages }
            : k \in 0..MaxPages }

-----------------------------------------------------------------------------
(* Promises.                                                               *)

Pending == [state |-> "pending"]
Fulfilled(v) == [state |-> "fulfilled", value |-> v]
Rejected(e) == [state |-> "rejected", reason |-> e]

Settled(p) == p.state \in {"fulfilled", "rejected"}

-----------------------------------------------------------------------------
(* fetchJson(url), lines 22-29, as a function of the response received.    *)

\* a variant of response.ok that takes only server errors as failures
ResponseOkBelow500(response) == response.status < 500

\* a variant of response.ok that takes only 4xx and 5xx as failures
ResponseOkBelow400(response) == response.status < 400

\* response.ok
ResponseOk(response) == response.status \in 200..299

\* line 26: `Failed request ${url} -> ${response.status}: ${text}`
FailedRequestMessage(url, response) ==
    Template(<<"Failed request ", url, " -> ", response.status, ": ",
               response.body>>)

\* response.json()
ResponseJson(response) ==
    IF JsonParse(response.body) = NotJson
    THEN Rejected(Err("SyntaxError", Str("Unexpected token < in JSON at position 0")))
    ELSE Fulfilled(JsonParse(response.body))

FetchJson(url, response) ==
    IF response.kind = "network_error"
    THEN Rejected(Err("TypeError", Str("fetch failed")))
    ELSE IF ~ResponseOk(response)
         THEN Rejected(Err("Error", FailedRequestMessage(url, response)))
         ELSE ResponseJson(response)

-----------------------------------------------------------------------------
(* listOrgRepos(), lines 31-46: one turn of the while loop, run when the   *)
(* page request it awaits has settled.                                     *)

\* line 39: if (!Array.isArray(data) || data.length === 0) break;
BreaksBeforePush(data) == ~IsArray(data) \/ Len(data.items) = 0

\* a variant of line 41 that also stops on a full page
BreaksAfterPushOnFull(data) == Len(data.items) <= perPage

\* line 41: if (data.length < perPage) break;
BreaksAfterPush(data) == Len(data.items) < perPage

\* a variant of line 40 that keeps only the newest page
PushReplaces(repos, data) == data.items

\* line 40: repos.push(...data)
Push(repos, data) == repos \o data.items

\* a variant of the loop that treats a failed page as the end of the list
LoopTurnKeepsRows(repos, p, fetched) ==
    IF fetched.state = "rejected" \/ BreaksBeforePush(fetched.value)
    THEN [repos |-> repos, page |-> p, promise |-> Fulfilled(repos),
          again |-> FALSE]
    ELSE IF BreaksAfterPush(fetched.value)
         THEN [repos |-> Push(repos, fetched.value), page |-> p,
               promise |-> Fulfilled(Push(repos, fetched.value)),
               again |-> FALSE]
         ELSE [repos |-> Push(repos, fetched.value), page |-> p + 1,
               promise |-> Pending, again |-> TRUE]

\* a variant of the loop that never asks for more than two pages
LoopTurnTwoPages(repos, p, fetched) ==
    IF fetched.state = "rejected"
    THEN [repos |-> repos, page |-> p, promise |-> Rejected(fetched.reason),
          again |-> FALSE]
    ELSE IF BreaksBeforePush(fetched.value)
         THEN [repos |-> repos, page |-> p, promise |-> Fulfilled(repos),
               again |-> FALSE]
         ELSE IF BreaksAfterPush(fetched.value) \/ p >= 2
              THEN [repos |-> Push(repos, fetched.value), page |-> p,
                    promise |-> Fulfilled(Push(repos, fetched.value)),
                    again |-> FALSE]
              ELSE [repos |-> Push(repos, fetched.value), page |-> p + 1,
                    promise |-> Pending, again |-> TRUE]

\* a variant of the loop that asks again for a page whose request failed
LoopTurnRetries(repos, p, fetched) ==
    IF fetched.state = "rejected"
    THEN [repos |-> repos, page |-> p, promise |-> Pending, again |-> TRUE]
    ELSE IF BreaksBeforePush(fetched.value)
         THEN [repos |-> repos, page |-> p, promise |-> Fulfilled(repos),
               again |-> FALSE]
         ELSE IF BreaksAfterPush(fetched.value)
              THEN [repos |-> Push(repos, fetched.value), page |-> p,
                    promise |-> Fulfilled(Push(repos, fetched.value)),
                    again |-> FALSE]
              ELSE [repos |-> Push(repos, fetched.value), page |-> p + 1,
                    promise |-> Pending, again |-> TRUE]

\* a variant of the loop that raises on a page that is not an array
LoopTurnRejectsNonArray(repos, p, fetched) ==
    IF fetched.state = "rejected"
    THEN [repos |-> repos, page |-> p, promise |-> Rejected(fetched.reason),
          again |-> FALSE]
    ELSE IF ~IsArray(fetched.value)
    THEN [repos |-> repos, page |-> p,
          promise |-> Rejected(Err("TypeError", Str("data is not iterable"))),
          again |-> FALSE]
    ELSE IF BreaksBeforePush(fetched.value)
         THEN [repos |-> repos, page |-> p, promise |-> Fulfilled(repos),
               again |-> FALSE]
         ELSE IF BreaksAfterPush(fetched.value)
              THEN [repos |-> Push(repos, fetched.value), page |-> p,
                    promise |-> Fulfilled(Push(repos, fetched.value)),
                    again |-> FALSE]
              ELSE [repos |-> Push(repos, fetched.value), page |-> p + 1,
                    promise |-> Pending, again |-> TRUE]

\* The loop turn for the settled fetchJson of page p: the new locals, the
\* promise of listOrgRepos and whether a further page is requested.
LoopTurn(repos, p, fetched) ==
    IF fetched.state = "rejected"
    THEN [repos |-> repos, page |-> p, promise |-> Rejected(fetched.reason),
          again |-> FALSE]
    ELSE IF BreaksBeforePush(fetched.value)
         THEN [repos |-> repos, page |-> p, promise |-> Fulfilled(repos),
               again |-> FALSE]
         ELSE IF BreaksAfterPush(fetched.value)
              THEN [repos |-> Push(repos, fetched.value), page |-> p,
                    promise |-> Fulfilled(Push(repos, fetched.value)),
                    again |-> FALSE]
              ELSE [repos |-> Push(repos, fetched.value), page |-> p + 1,
                    promise |-> Pending, again |-> TRUE]

-----------------------------------------------------------------------------
(* fetchOrgMetrics(), lines 48-90.                                         *)

\* new Date(s).getTime(), in seconds, of the timestamps the API serves
DateValue(s) ==
    CASE s.v = "2023-12-31T23:59:59Z" -> 1704067199
      [] s.v = "2024-03-01T00:00:00Z" -> 1709251200
      [] s.v = "2024-05-01T00:00:00Z" -> 1714521600

\* a variant of the comparator that ranks the oldest push first
ComparePushedOldestFirst(a, b) ==
    DateValue(Get(a, "pushed_at")) - DateValue(Get(b, "pushed_at"))

\* line 57: (a, b) => new Date(b.pushed_at) - new Date(a.pushed_at)
ComparePushed(a, b) ==
    DateValue(Get(b, "pushed_at")) - DateValue(Get(a, "pushed_at"))

\* Array.prototype.sort is stable: the rows the comparator ranks first come
\* first, in the order they had, and the other rows follow, sorted likewise.
RECURSIVE SortByPushed(_)
SortByPushed(s) ==
    IF s = <<>> THEN <<>>
    ELSE LET rows == {s[i] : i \in DOMAIN s}
             first == CHOOSE a \in rows : \A b \in rows : ComparePushed(a, b) <= 0
             Ties(r) == ComparePushed(first, r) = 0
             Behind(r) == ComparePushed(first, r) # 0
         IN SelectSeq(s, Ties) \o SortByPushed(SelectSeq(s, Behind))

\* lines 55-57: repos.filter(repo => repo.pushed_at).sort(...)[0]
HasPushedAt(repo) == ~Falsy(Get(repo, "pushed_at"))

\* a variant that falls back on the first row when no row was pushed to
LatestRepoOrFirst(repos) ==
    LET sorted == SortByPushed(SelectSeq(repos, HasPushedAt))
    IN IF sorted # <<>> THEN sorted[1]
       ELSE IF repos = <<>> THEN Undefined ELSE repos[1]

LatestRepo(repos) ==
    LET sorted == SortByPushed(SelectSeq(repos, HasPushedAt))
    IN IF sorted = <<>> THEN Undefined ELSE sorted[1]

\* lines 59-60: repos.reduce((sum, repo) => sum + (repo[field] || 0), 0),
\* over the rows lo..hi; integer addition is associative, so the sum is
\* taken by halves to keep the recursion shallow.
RECURSIVE Reduce(_, _, _, _)
Reduce(repos, field, lo, hi) ==
    IF lo > hi THEN 0
    ELSE IF lo = hi THEN FalsyOr(Get(repos[lo], field), Num(0)).v
    ELSE LET mid == (lo + hi) \div 2
         IN Reduce(repos, field, lo, mid) + Reduce(repos, field, mid + 1, hi)

\* a variant of the reduce that passes over the first repository
TotalOfSkipsFirst(repos, field) == Num(Reduce(repos, field, 2, Len(repos)))

TotalOf(repos, field) == Num(Reduce(repos, field, 1, Len(repos)))

\* a variant of the reference that leaves the URL of the repository out
LatestPushedRepositoryWithoutUrl(latestRepo) ==
    IF Falsy(latestRepo) THEN Null
    ELSE Obj([name |-> Get(latestRepo, "name"),
              pushedAt |-> Get(latestRepo, "pushed_at"),
              htmlUrl |-> Null])

\* lines 70-74
LatestPushedRepository(latestRepo) ==
    IF Falsy(latestRepo) THEN Null
    ELSE Obj([name |-> Get(latestRepo, "name"),
              pushedAt |-> Get(latestRepo, "pushed_at"),
              htmlUrl |-> Get(latestRepo, "html_url")])

\* a variant of the try block's value whose private count falls back to the
\* list length as the public count does
SuccessMetricsPrivateFromList(org, repos) ==
    Obj([organization |-> GITHUB_ORG,
         publicRepos |-> NullishOr(Get(org, "public_repos"), Num(Len(repos))),
         privateRepos |-> NullishOr(Get(org, "total_private_repos"), Num(Len(repos))),
         followers |-> NullishOr(Get(org, "followers"), Num(0)),
         members |-> NullishOr(Get(org, "public_members"), Num(0)),
         totalStars |-> TotalOf(repos, "stargazers_count"),
         totalForks |-> TotalOf(repos, "forks_count"),
         latestPushedRepository |-> LatestPushedRepository(LatestRepo(repos))])

\* lines 62-75: the value returned by the try block
SuccessMetrics(org, repos) ==
    Obj([organization |-> GITHUB_ORG,
         publicRepos |-> NullishOr(Get(org, "public_repos"), Num(Len(repos))),
         privateRepos |-> NullishOr(Get(org, "total_private_repos"), Num(0)),
         followers |-> NullishOr(Get(org, "followers"), Num(0)),
         members |-> NullishOr(Get(org, "public_members"), Num(0)),
         totalStars |-> TotalOf(repos, "stargazers_count"),
         totalForks |-> TotalOf(repos, "forks_count"),
         latestPushedRepository |-> LatestPushedRepository(LatestRepo(repos))])

\* a variant of the catch block's value without the repository reference
DegradedMetricsNoLatest(error) ==
    Obj([organization |-> GITHUB_ORG,
         publicRepos |-> Num(0),
         privateRepos |-> Num(0),
         followers |-> Num(0),
         members |-> Num(0),
         totalStars |-> Num(0),
         totalForks |-> Num(0),
         error |-> error.message])

\* lines 78-88: the value returned by the catch block
DegradedMetrics(error) ==
    Obj([organization |-> GITHUB_ORG,
         publicRepos |-> Num(0),
         privateRepos |-> Num(0),
         followers |-> Num(0),
         members |-> Num(0),
         totalStars |-> Num(0),
         totalForks |-> Num(0),
         latestPushedRepository |-> Null,
         error |-> error.message])

\* a variant of the warning that leaves the error message out
WarnLineWithoutMessage(error) ==
    [level |-> "warn", text |-> "[WARN] Unable to fetch GitHub metrics:",
     detail |-> Str("")]

\* line 77
WarnLine(error) ==
    [level |-> "warn", text |-> "[WARN] Unable to fetch GitHub metrics:",
     detail |-> error.message]

\* a variant of the catch block that rethrows
CatchBlockRethrows(error) ==
    [promise |-> Rejected(error), logs |-> <<WarnLine(error)>>]

\* lines 76-89: catch (error) { console.warn(...); return {...}; }
CatchBlock(error) ==
    [promise |-> Fulfilled(DegradedMetrics(error)), logs |-> <<WarnLine(error)>>]

\* lines 55-75: reading a property of a null organization raises a TypeError
TryBlock(org, repos) ==
    IF IsNullish(org)
    THEN [threw |-> TRUE,
          error |-> Err("TypeError",
                        Str("Cannot read properties of null (reading 'public_repos')"))]
    ELSE [threw |-> FALSE, value |-> SuccessMetrics(org, repos)]

\* The rest of fetchOrgMetrics once Promise.all has settled as `all`.
FetchOrgMetricsResume(all) ==
    IF all.state = "rejected"
    THEN CatchBlock(all.reason)
    ELSE LET try == TryBlock(all.value[1], all.value[2])
         IN IF try.threw
            THEN CatchBlock(try.error)
            ELSE [promise |-> Fulfilled(try.value), logs |-> <<>>]

\* a variant of the join that takes a failed listing as an empty list
PromiseAllListOptional(all, org, list) ==
    IF Settled(all) THEN all
    ELSE IF org.state = "rejected" THEN Rejected(org.reason)
    ELSE IF org.state = "fulfilled" /\ Settled(list)
         THEN Fulfilled(<<org.value,
                          IF list.state = "fulfilled" THEN list.value ELSE <<>> >>)
         ELSE Pending

\* a variant of the join that does not wait for the listing
PromiseAllOrgOnly(all, org, list) ==
    IF Settled(all) THEN all
    ELSE IF org.state = "rejected" THEN Rejected(org.reason)
    ELSE IF list.state = "rejected" THEN Rejected(list.reason)
    ELSE IF org.state = "fulfilled"
         THEN Fulfilled(<<org.value,
                          IF list.state = "fulfilled" THEN list.value ELSE <<>> >>)
         ELSE Pending

\* a variant of the join that waits for both operations to settle
PromiseAllWaitsBoth(all, org, list) ==
    IF Settled(all) THEN all
    ELSE IF Settled(org) /\ Settled(list)
         THEN IF org.state = "rejected" THEN Rejected(org.reason)
              ELSE IF list.state = "rejected" THEN Rejected(list.reason)
              ELSE Fulfilled(<<org.value, list.value>>)
         ELSE Pending

\* line 50: Promise.all([fetchJson(orgUrl), listOrgRepos()]) rejects with the
\* first rejection and is fulfilled once both are.
PromiseAll(all, org, list) ==
    IF Settled(all) THEN all
    ELSE IF org.state = "rejected" THEN Rejected(org.reason)
    ELSE IF list.state = "rejected" THEN Rejected(list.reason)
    ELSE IF org.state = "fulfilled" /\ list.state = "fulfilled"
         THEN Fulfilled(<<org.value, list.value>>)
         ELSE Pending

-----------------------------------------------------------------------------
(* main(), lines 92-122, and its catch handler, lines 124-127.             *)

Add(a, b) == Num(a.v + b.v)

Systems ==
    Arr(<<Obj([name |-> Str("Quantum Core Labs"), status |-> Str("skunkworks"),
               emphasis |-> Str("#E7AE59")]),
          Obj([name |-> Str("Campaign Intelligence Grid"),
               status |-> Str("operational"), emphasis |-> Str("#AC2D21")])>>)

\* a variant of the payload that counts the public repositories only
BuildPayloadPublicOnly(metrics, now) ==
    LET latest == Get(metrics, "latestPushedRepository")
    IN Obj([generatedAt |-> Str(now),
            systems |-> Systems,
            metrics |-> Obj([
                repos |-> Get(metrics, "publicRepos"),
                followers |-> Get(metrics, "followers"),
                members |-> Get(metrics, "members"),
                totalStars |-> Get(metrics, "totalStars"),
                totalForks |-> Get(metrics, "totalForks"),
                latestCommit |-> IF Falsy(latest) THEN Null ELSE Get(latest, "pushedAt"),
                latestRepository |-> IF Falsy(latest) THEN Null ELSE Get(latest, "name")]),
            sources |-> Obj([
                github |-> Str("https://github.com/abstract-data"),
                latestRepository |-> IF Falsy(latest) THEN Null ELSE Get(latest, "htmlUrl")])])

\* a variant of the payload that dates a missing latest commit with the run
BuildPayloadStampsLatest(metrics, now) ==
    LET latest == Get(metrics, "latestPushedRepository")
    IN Obj([generatedAt |-> Str(now),
            systems |-> Systems,
            metrics |-> Obj([
                repos |-> Add(Get(metrics, "publicRepos"), Get(metrics, "privateRepos")),
                followers |-> Get(metrics, "followers"),
                members |-> Get(metrics, "members"),
                totalStars |-> Get(metrics, "totalStars"),
                totalForks |-> Get(metrics, "totalForks"),
                latestCommit |-> IF Falsy(latest) THEN Str(now) ELSE Get(latest, "pushedAt"),
                latestRepository |-> IF Falsy(latest) THEN Null ELSE Get(latest, "name")]),
            sources |-> Obj([
                github |-> Str("https://github.com/abstract-data"),
                latestRepository |-> IF Falsy(latest) THEN Null ELSE Get(latest, "htmlUrl")])])

\* lines 95-114
BuildPayload(metrics, now) ==
    LET latest == Get(metrics, "latestPushedRepository")
    IN Obj([generatedAt |-> Str(now),
            systems |-> Systems,
            metrics |-> Obj([
                repos |-> Add(Get(metrics, "publicRepos"), Get(metrics, "privateRepos")),
                followers |-> Get(metrics, "followers"),
                members |-> Get(metrics, "members"),
                totalStars |-> Get(metrics, "totalStars"),
                totalForks |-> Get(metrics, "totalForks"),
                latestCommit |-> IF Falsy(latest) THEN Null ELSE Get(latest, "pushedAt"),
                latestRepository |-> IF Falsy(latest) THEN Null ELSE Get(latest, "name")]),
            sources |-> Obj([
                github |-> Str("https://github.com/abstract-data"),
                latestRepository |-> IF Falsy(latest) THEN Null ELSE Get(latest, "htmlUrl")])])

\* JSON.stringify(value, null, 2): a property whose value is undefined is
\* left out, an undefined array element is written as null.
RECURSIVE JsonOf(_)
JsonOf(v) ==
    CASE v.t = "object" ->
           Obj([k \in {j \in DOMAIN v.f : v.f[j].t # "undefined"} |-> JsonOf(v.f[k])])
      [] v.t = "array" ->
           Arr([i \in 1..Len(v.items) |->
                  IF v.items[i].t = "undefined" THEN Null ELSE JsonOf(v.items[i])])
      [] OTHER -> v

Stringify(v) == [t |-> "json_text", doc |-> JsonOf(v)]

\* The file system under OUTPUT_DIR.
NoFile == [t |-> "absent"]
StaleFile ==
    [t |-> "json_text",
     doc |-> Obj([generatedAt |-> Str("2020-01-01T09:00:00.000Z"),
                  stale |-> Str("left by an earlier run")])]
Disks == { [dir |-> FALSE, file |-> NoFile], [dir |-> TRUE, file |-> StaleFile] }

\* What can go wrong in lines 116-120: existsSync never throws, mkdirSync is
\* called only when the directory is missing.
FsFaults(d) == IF d.dir THEN {"none", "write"} ELSE {"none", "mkdir", "write"}

\* new Date().toISOString()
Clock == {"2026-01-01T09:00:00.000Z", "2026-01-02T09:00:00.000Z"}

GeneratedLine ==
    [level |-> "log", text |-> "Generated stats payload ->", detail |-> Str(OUTPUT_FILE)]

\* a variant of main that takes a degraded metrics value as fatal
MainResumeStrict(metrics, now, d, fault) ==
    IF "error" \in DOMAIN metrics.f \/ fault # "none"
    THEN [promise |-> Rejected(Err("Error", Str("metrics unavailable"))),
          disk |-> d, logs |-> <<>>]
    ELSE [promise |-> Fulfilled(Undefined),
          disk |-> [dir |-> TRUE, file |-> Stringify(BuildPayload(metrics, now))],
          logs |-> <<GeneratedLine>>]

\* a variant of main that keeps the keys of the file it finds and sets its
\* own over them
MainResumeMerges(metrics, now, d, fault) ==
    IF fault = "mkdir"
    THEN [promise |-> Rejected(Err("Error", Str("EACCES: mkdir"))),
          disk |-> d, logs |-> <<>>]
    ELSE IF fault = "write"
    THEN [promise |-> Rejected(Err("Error", Str("EACCES: open"))),
          disk |-> [d EXCEPT !.dir = TRUE], logs |-> <<>>]
    ELSE LET new == Stringify(BuildPayload(metrics, now)).doc.f
             old == IF d.file = NoFile THEN new ELSE d.file.doc.f
         IN [promise |-> Fulfilled(Undefined),
             disk |-> [dir |-> TRUE,
                       file |-> [t |-> "json_text",
                                 doc |-> Obj([k \in DOMAIN new \cup DOMAIN old |->
                                                IF k \in DOMAIN new THEN new[k]
                                                ELSE old[k]])]],
             logs |-> <<GeneratedLine>>]

\* lines 95-121: the rest of main once fetchOrgMetrics has returned `metrics`
MainResume(metrics, now, d, fault) ==
    IF fault = "mkdir"
    THEN [promise |-> Rejected(Err("Error", Str("EACCES: mkdir"))),
          disk |-> d, logs |-> <<>>]
    ELSE IF fault = "write"
    THEN [promise |-> Rejected(Err("Error", Str("EACCES: open"))),
          disk |-> [d EXCEPT !.dir = TRUE], logs |-> <<>>]
    ELSE [promise |-> Fulfilled(Undefined),
          disk |-> [dir |-> TRUE, file |-> Stringify(BuildPayload(metrics, now))],
          logs |-> <<GeneratedLine>>]

\* line 125
ErrorLine(error) ==
    [level |-> "error", text |-> "[ERROR] generate-stats failed:", detail |-> error]

-----------------------------------------------------------------------------
(* The run.                                                                *)

VARIABLES
    token,           \* process.env.GITHUB_TOKEN
    api,             \* what the remote API answers: [org, pages]
    disk,            \* OUTPUT_DIR and OUTPUT_FILE
    diskAtStart,     \* OUTPUT_DIR and OUTPUT_FILE as the run found them
    requests,        \* every fetch(url, {headers}) issued, in order
    orgPromise,      \* fetchJson(orgUrl) of line 51
    page,            \* listOrgRepos: let page
    repos,           \* listOrgRepos: const repos
    listPromise,     \* listOrgRepos() of line 52
    allPromise,      \* Promise.all([...]) of line 50
    metricsPromise,  \* fetchOrgMetrics() of line 93
    mainPromise,     \* main() of line 124
    console,         \* console.log / console.warn / console.error lines
    process          \* running, or exited with a code

vars ==
    <<token, api, disk, diskAtStart, requests, orgPromise, page, repos,
      listPromise, allPromise, metricsPromise, mainPromise, console, process>>

NotCalled == [state |-> "not_called"]
Running == [running |-> TRUE]
Exited(code) == [running |-> FALSE, code |-> code]

Request(url) == [url |-> url, headers |-> HEADERS(token)]

Init ==
    /\ token \in Tokens
    /\ api \in [org : OrgResponses, pages : PageListings]
    /\ disk \in Disks
    /\ diskAtStart = disk
    /\ requests = <<>>
    /\ orgPromise = NotCalled
    /\ page = 1
    /\ repos = <<>>
    /\ listPromise = NotCalled
    /\ allPromise = NotCalled
    /\ metricsPromise = NotCalled
    /\ mainPromise = NotCalled
    /\ console = <<>>
    /\ process = Running

\* A continuation is queued as a microtask: no I/O callback runs before it.
MicrotaskQueued ==
    \/ (metricsPromise.state = "pending" /\ Settled(allPromise))
    \/ (mainPromise.state = "pending" /\ Settled(metricsPromise))
    \/ mainPromise.state = "rejected"

\* a variant of the start that asks for the first two pages at once
MainStartPrefetches ==
    /\ process.running
    /\ mainPromise = NotCalled
    /\ requests' = <<Request(OrgUrl), Request(ReposUrl(1)), Request(ReposUrl(2))>>
    /\ orgPromise' = Pending
    /\ listPromise' = Pending
    /\ allPromise' = Pending
    /\ metricsPromise' = Pending
    /\ mainPromise' = Pending
    /\ UNCHANGED <<token, api, diskAtStart, disk, page, repos, console, process>>

\* line 124 main() -> line 93 fetchOrgMetrics() -> lines 50-52: both
\* operations start, each up to its first await of fetch().
MainStart ==
    /\ process.running
    /\ mainPromise = NotCalled
    /\ requests' = <<Request(OrgUrl), Request(ReposUrl(1))>>
    /\ orgPromise' = Pending
    /\ listPromise' = Pending
    /\ allPromise' = Pending
    /\ metricsPromise' = Pending
    /\ mainPromise' = Pending
    /\ UNCHANGED <<token, api, diskAtStart, disk, page, repos, console, process>>

\* The organization request settles: fetchJson(orgUrl) completes.
OrgSettles ==
    /\ process.running
    /\ ~MicrotaskQueued
    /\ orgPromise.state = "pending"
    /\ orgPromise' = FetchJson(OrgUrl, api.org)
    /\ allPromise' = PromiseAll(allPromise, orgPromise', listPromise)
    /\ UNCHANGED <<token, api, diskAtStart, disk, requests, page, repos, listPromise,
                   metricsPromise, mainPromise, console, process>>

\* The request of the current page settles: one turn of the loop of
\* listOrgRepos, up to its next await or its return.
PageSettles ==
    /\ process.running
    /\ ~MicrotaskQueued
    /\ listPromise.state = "pending"
    /\ LET turn == LoopTurn(repos, page, FetchJson(ReposUrl(page), api.pages[page]))
       IN /\ repos' = turn.repos
          /\ page' = turn.page
          /\ listPromise' = turn.promise
          /\ requests' = IF turn.again
                         THEN Append(requests, Request(ReposUrl(turn.page)))
                         ELSE requests
    /\ allPromise' = PromiseAll(allPromise, orgPromise, listPromise')
    /\ UNCHANGED <<token, api, diskAtStart, disk, orgPromise, metricsPromise, mainPromise,
                   console, process>>

\* fetchOrgMetrics resumes after its await and returns.
MetricsSettles ==
    /\ process.running
    /\ metricsPromise.state = "pending"
    /\ Settled(allPromise)
    /\ LET out == FetchOrgMetricsResume(allPromise)
       IN /\ metricsPromise' = out.promise
          /\ console' = console \o out.logs
    /\ UNCHANGED <<token, api, diskAtStart, disk, requests, orgPromise, page, repos,
                   listPromise, allPromise, mainPromise, process>>

\* main resumes after its await: builds the payload and writes the file.
MainSettles ==
    /\ process.running
    /\ mainPromise.state = "pending"
    /\ Settled(metricsPromise)
    /\ IF metricsPromise.state = "rejected"
       THEN /\ mainPromise' = Rejected(metricsPromise.reason)
            /\ UNCHANGED <<disk, console>>
       ELSE \E now \in Clock, fault \in FsFaults(disk) :
              LET out == MainResume(metricsPromise.value, now, disk, fault)
              IN /\ mainPromise' = out.promise
                 /\ disk' = out.disk
                 /\ console' = console \o out.logs
    /\ UNCHANGED <<token, api, diskAtStart, requests, orgPromise, page, repos, listPromise,
                   allPromise, metricsPromise, process>>

\* a variant of the handler that logs the error and lets the process end
MainCatchNoExit ==
    /\ process.running
    /\ mainPromise.state = "rejected"
    /\ console' = Append(console, ErrorLine(mainPromise.reason))
    /\ process' = Exited(0)
    /\ UNCHANGED <<token, api, diskAtStart, disk, requests, orgPromise, page, repos,
                   listPromise, allPromise, metricsPromise, mainPromise>>

\* lines 124-127: main().catch(error => { console.error(...); process.exit(1) })
MainCatch ==
    /\ process.running
    /\ mainPromise.state = "rejected"
    /\ console' = Append(console, ErrorLine(mainPromise.reason))
    /\ process' = Exited(1)
    /\ UNCHANGED <<token, api, diskAtStart, disk, requests, orgPromise, page, repos,
                   listPromise, allPromise, metricsPromise, mainPromise>>

\* Nothing is left to do: main has returned and no request is outstanding.
ProcessEnds ==
    /\ process.running
    /\ mainPromise.state = "fulfilled"
    /\ Settled(orgPromise)
    /\ Settled(listPromise)
    /\ process' = Exited(0)
    /\ UNCHANGED <<token, api, diskAtStart, disk, requests, orgPromise, page, repos,
                   listPromise, allPromise, metricsPromise, mainPromise, console>>

Next ==
    \/ MainStart
    \/ OrgSettles
    \/ PageSettles
    \/ MetricsSettles
    \/ MainSettles
    \/ MainCatch
    \/ ProcessEnds

Spec == Init /\ [][Next]_vars

\* The runs in which every outstanding request is answered and every queued
\* continuation is run by the event loop, started without a token, with the
\* output directory in place, the organization request either failing or
\* served in full, and any repository listing.
FairInit ==
    /\ Init
    /\ token = Undefined
    /\ disk.dir
    /\ api.org \in {NetworkError, Http(200, "org-full")}

FairSpec == FairInit /\ [][Next]_vars /\ WF_vars(Next)

-----------------------------------------------------------------------------
(* Vocabulary of the properties.                                           *)

\* The response makes its request fail: no response at all, a status outside
\* the success range, or a body that is not JSON.
RequestFails(response) ==
    IF response.kind = "network_error" THEN TRUE
    ELSE \/ response.status < 200
         \/ response.status > 299
         \/ JsonParse(response.body).t = "not_json"

\* Some request of the run is answered by a failure.
AnyRequestFails ==
    \/ RequestFails(api.org)
    \/ \E i \in DOMAIN api.pages : RequestFails(api.pages[i])

\* The rows a page response carries (none unless it is a served array).
RowsServed(response) ==
    IF ~RequestFails(response) /\ JsonParse(response.body).t = "array"
    THEN JsonParse(response.body).items
    ELSE <<>>

RECURSIVE RowsOfPages(_)
RowsOfPages(pages) ==
    IF pages = <<>> THEN <<>>
    ELSE RowsServed(Head(pages)) \o RowsOfPages(Tail(pages))

LastPage == api.pages[Len(api.pages)]

IsPageRequest(r) == "page" \in DOMAIN r.url
PageRequests == SelectSeq(requests, IsPageRequest)

Returned == metricsPromise.state = "fulfilled"
ReturnedDegraded == Returned /\ "error" \in DOMAIN metricsPromise.value.f
ReturnedSuccess == Returned /\ "error" \notin DOMAIN metricsPromise.value.f

MetricsKeys ==
    {"organization", "publicRepos", "privateRepos", "followers", "members",
     "totalStars", "totalForks", "latestPushedRepository"}
CountKeys ==
    {"publicRepos", "privateRepos", "followers", "members", "totalStars",
     "totalForks"}

IsString(x) == x.t \in {"string", "template"}

\* This run has written the output file.
FileWritten ==
    /\ disk.file.t = "json_text"
    /\ "generatedAt" \in DOMAIN disk.file.doc.f
    /\ disk.file.doc.f.generatedAt.v \in Clock

FsErrors ==
    {Err("Error", Str("EACCES: mkdir")), Err("Error", Str("EACCES: open"))}

IsGeneratedLine(line) == line.level = "log"

-----------------------------------------------------------------------------
(* C1: fetchOrgMetrics never raises to its caller. Whatever the outcomes   *)
(* of the organization request and of the page requests, its promise is    *)
(* never rejected; when it has settled it holds a metrics object, and the  *)
(* process never ends without the call having returned one.               *)
C1_NeverRaises ==
    /\ metricsPromise.state # "rejected"
    /\ Returned =>
         /\ metricsPromise.value.t = "object"
         /\ MetricsKeys \subseteq DOMAIN metricsPromise.value.f
    /\ ~process.running => Returned

\* both operations failed, in different ways, and the call returned
C1_Witness ==
    /\ Returned
    /\ orgPromise.state = "rejected"
    /\ listPromise.state = "rejected"
    /\ orgPromise.reason.name # listPromise.reason.name

(* C2: if the organization request or any page request fails, the value    *)
(* returned by fetchOrgMetrics has its six counts at 0, a null             *)
(* latestPushedRepository and an error string.                             *)
C2_FailureGivesZeroes ==
    (Returned /\ AnyRequestFails) =>
        /\ \A k \in CountKeys : Get(metricsPromise.value, k) = Num(0)
        /\ Get(metricsPromise.value, "latestPushedRepository") = Null
        /\ "error" \in DOMAIN metricsPromise.value.f
        /\ IsString(metricsPromise.value.f.error)

\* the organization request succeeded and a later page failed
C2_Witness ==
    /\ Returned
    /\ api.org.kind = "response"
    /\ api.org.body = "org-full"
    /\ ~RequestFails(api.org)
    /\ Len(api.pages) > 1
    /\ RequestFails(LastPage)
    /\ Get(metricsPromise.value, "followers") = Num(0)

\* Exactly one of the two operations is answered by a failure.
OneFailsOtherSucceeds ==
    RequestFails(api.org) # (\E i \in DOMAIN api.pages : RequestFails(api.pages[i]))

(* C3: no partial-success merging. When one of the two operations fails    *)
(* and the other succeeds, the returned metrics are exactly the zero       *)
(* snapshot with the error of the failed operation, and the written        *)
(* payload carries only zeros and nulls: nothing of the organization       *)
(* response or of the pages fetched.                                       *)
C3_NoPartialMerge ==
    (Returned /\ OneFailsOtherSucceeds) =>
        /\ allPromise.state = "rejected"
        /\ metricsPromise.value =
             Obj([organization |-> Str("abstract-data"),
                  publicRepos |-> Num(0), privateRepos |-> Num(0),
                  followers |-> Num(0), members |-> Num(0),
                  totalStars |-> Num(0), totalForks |-> Num(0),
                  latestPushedRepository |-> Null,
                  error |-> allPromise.reason.message])
        /\ FileWritten =>
             /\ disk.file.doc.f.metrics =
                  Obj([repos |-> Num(0), followers |-> Num(0), members |-> Num(0),
                       totalStars |-> Num(0), totalForks |-> Num(0),
                       latestCommit |-> Null, latestRepository |-> Null])
             /\ disk.file.doc.f.sources.f.latestRepository = Null

\* the organization data arrived, a page failed after full pages, file written
C3_Witness ==
    /\ orgPromise = Fulfilled(OrgFull)
    /\ listPromise.state = "rejected"
    /\ Len(repos) >= perPage
    /\ FileWritten
    /\ ReturnedDegraded

(* C4: the shape is stable. The returned value has the eight metrics keys  *)
(* on success and the same eight plus error on failure; every written      *)
(* payload has the keys generatedAt, systems, metrics (7 keys) and         *)
(* sources (2 keys), degraded or not.                                      *)
C4_StableShape ==
    /\ ReturnedSuccess => DOMAIN metricsPromise.value.f = MetricsKeys
    /\ ReturnedDegraded =>
         DOMAIN metricsPromise.value.f = MetricsKeys \cup {"error"}
    /\ FileWritten =>
         /\ DOMAIN disk.file.doc.f = {"generatedAt", "systems", "metrics", "sources"}
         /\ DOMAIN disk.file.doc.f.metrics.f =
              {"repos", "followers", "members", "totalStars", "totalForks",
               "latestCommit", "latestRepository"}
         /\ DOMAIN disk.file.doc.f.sources.f = {"github", "latestRepository"}

\* a degraded run has written its payload
C4_Witness == ReturnedDegraded /\ FileWritten /\ mainPromise.state = "fulfilled"

(* C5: an API failure never halts the process and never leads to           *)
(* process.exit(1). In a run with a failed request, main is rejected only  *)
(* by a file-system error; once main has returned the file holds this      *)
(* run's payload; the process stops only by exiting, with status 0 when    *)
(* the file system did not fail.                                           *)
C5_DegradedRunSucceeds ==
    AnyRequestFails =>
        /\ mainPromise.state = "rejected" => mainPromise.reason \in FsErrors
        /\ mainPromise.state = "fulfilled" => FileWritten
        /\ (~process.running /\ mainPromise.state = "fulfilled") => process.code = 0
        /\ (process.running /\ mainPromise.state # "not_called") => ENABLED Next

\* a degraded run has written the file and exited with status 0
C5_Witness ==
    /\ ReturnedDegraded
    /\ FileWritten
    /\ process = Exited(0)

(* C6: a failure of mkdirSync or writeFileSync is not recovered. The       *)
(* error is logged at error severity, the process exits with status 1,     *)
(* and 'Generated stats payload' is not logged; that line is logged only   *)
(* when the file was written.                                              *)
C6_WriteFailureIsFatal ==
    /\ mainPromise.state = "rejected" =>
         /\ \A i \in DOMAIN console : ~IsGeneratedLine(console[i])
         /\ process.running => ENABLED MainCatch
         /\ ~process.running =>
              /\ process.code = 1
              /\ console[Len(console)] = ErrorLine(mainPromise.reason)
    /\ (\E i \in DOMAIN console : IsGeneratedLine(console[i])) => FileWritten
    /\ (~process.running /\ process.code = 0) => mainPromise.state = "fulfilled"

\* writeFileSync failed and the process exited with status 1
C6_Witness ==
    /\ process = Exited(1)
    /\ mainPromise = Rejected(Err("Error", Str("EACCES: open")))
    /\ ~FileWritten

-----------------------------------------------------------------------------
(* Pagination and the sums.                                                *)

IsFullPage(response) == Len(RowsServed(response)) = perPage
IsShortPage(response) ==
    Len(RowsServed(response)) >= 1 /\ Len(RowsServed(response)) < perPage
IsEmptyPage(response) ==
    /\ ~RequestFails(response)
    /\ JsonParse(response.body) = Arr(<<>>)

\* The page requests issued so far are those of pages 1, 2, ..., n.
PagesRequestedInOrder ==
    \A i \in DOMAIN PageRequests : PageRequests[i].url.page = i

(* C7: when the API serves k pages of 100 rows and then a page of 1 to 99  *)
(* rows, listOrgRepos issues exactly k+1 page requests, for pages 1..k+1,  *)
(* and returns the rows of all k+1 pages in page order.                    *)
C7_ShortPageEndsListing ==
    IsShortPage(LastPage) =>
        /\ Len(PageRequests) <= Len(api.pages)
        /\ PagesRequestedInOrder
        /\ listPromise.state # "rejected"
        /\ listPromise.state = "fulfilled" =>
             /\ Len(PageRequests) = Len(api.pages)
             /\ listPromise.value = RowsOfPages(api.pages)
             /\ Len(listPromise.value) =
                  perPage * (Len(api.pages) - 1) + Len(RowsServed(LastPage))

\* page sizes [100, 100, 37]: 3 requests, 237 repositories
C7_Witness ==
    /\ Len(api.pages) = 3
    /\ Len(RowsServed(LastPage)) = 37
    /\ listPromise.state = "fulfilled"
    /\ Len(listPromise.value) = 237
    /\ Len(PageRequests) = 3
    /\ api.pages[1] # api.pages[2]

(* C8: an empty page stops pagination. When the empty page is the first    *)
(* page, listOrgRepos issues exactly 1 page request and returns a list of  *)
(* length 0; when it follows k full pages, k+1 requests are issued and the *)
(* 100*k rows collected so far are returned.                               *)
C8_EmptyPageEndsListing ==
    IsEmptyPage(LastPage) =>
        /\ Len(PageRequests) <= Len(api.pages)
        /\ listPromise.state # "rejected"
        /\ listPromise.state = "fulfilled" =>
             /\ Len(PageRequests) = Len(api.pages)
             /\ Len(listPromise.value) = perPage * (Len(api.pages) - 1)
             /\ listPromise.value =
                  RowsOfPages(SubSeq(api.pages, 1, Len(api.pages) - 1))

\* the first page is []: one request, no repository
C8_Witness ==
    /\ Len(api.pages) = 1
    /\ IsEmptyPage(api.pages[1])
    /\ listPromise = Fulfilled(<<>>)
    /\ Len(PageRequests) = 1

(* C9: pagination ends exactly on a page that is not full. While every     *)
(* request is answered, listOrgRepos completes (or the process has exited  *)
(* with a write failure before); it has completed only on a page of fewer  *)
(* than 100 rows, an empty page or an error; and every turn of its loop    *)
(* that received a full page requests the next page and nothing else.      *)
C9_TurnOfLoop ==
    (listPromise.state = "pending" /\ (listPromise' # listPromise \/ page' # page)) =>
        IF IsFullPage(api.pages[page])
        THEN /\ listPromise' = Pending
             /\ page' = page + 1
             /\ requests' = Append(requests, Request(ReposUrl(page + 1)))
        ELSE /\ Settled(listPromise')
             /\ page' = page
             /\ requests' = requests

C9_PaginationTerminates ==
    /\ <>(Settled(listPromise) \/ ~process.running)
    /\ [][/\ C9_TurnOfLoop
          /\ Settled(listPromise') => ~IsFullPage(api.pages[page'])]_vars

\* the listing completed after more than one page
C9_Witness ==
    /\ Settled(listPromise)
    /\ page > 1
    /\ Len(PageRequests) = page
    /\ IsFullPage(api.pages[page - 1])

\* The count a row contributes: its number, or 0 when it has none.
CountOf(row, field) ==
    IF field \in DOMAIN row.f /\ row.f[field].t = "number"
    THEN row.f[field].v
    ELSE 0

RECURSIVE SumOfSet(_, _, _)
SumOfSet(rowSet, rows, field) ==
    IF rowSet = {} THEN 0
    ELSE LET r == CHOOSE x \in rowSet : TRUE
         IN Cardinality({i \in DOMAIN rows : rows[i] = r}) * CountOf(r, field)
            + SumOfSet(rowSet \ {r}, rows, field)

\* each distinct row counted as many times as it occurs
SumOverRows(rows, field) == SumOfSet({rows[i] : i \in DOMAIN rows}, rows, field)

RECURSIVE SumOverPages(_, _)
SumOverPages(pages, field) ==
    IF pages = <<>> THEN 0
    ELSE SumOverRows(RowsServed(Head(pages)), field)
         + SumOverPages(Tail(pages), field)

(* C10: on every successful aggregation totalStars is the sum of           *)
(* stargazers_count over all repositories of all fetched pages, a missing  *)
(* count taken as 0, and totalForks is the same sum over forks_count.      *)
C10_TotalsAreSums ==
    ReturnedSuccess =>
        /\ Get(metricsPromise.value, "totalStars") =
             Num(SumOverPages(api.pages, "stargazers_count"))
        /\ Get(metricsPromise.value, "totalForks") =
             Num(SumOverPages(api.pages, "forks_count"))

\* several pages, some rows without counts, a positive total
C10_Witness ==
    /\ ReturnedSuccess
    /\ Len(api.pages) > 1
    /\ \E i \in DOMAIN repos : "stargazers_count" \notin DOMAIN repos[i].f
    /\ Get(metricsPromise.value, "totalStars").v > 0
    /\ Get(metricsPromise.value, "totalForks").v > 0

-----------------------------------------------------------------------------
\* The organization object the API serves, and the fields it carries.
OrgServed == JsonParse(api.org.body)
OrgCarries(k) == k \in DOMAIN OrgServed.f
OrgField(k) == OrgServed.f[k]

\* The repository list the pagination aggregates from the pages served.
ListServed == RowsOfPages(api.pages)

\* The metrics section of the file this run wrote.
WrittenMetrics == disk.file.doc.f.metrics.f
WrittenSources == disk.file.doc.f.sources.f

(* C11: when every request succeeds, the written metrics.repos is          *)
(* public_repos + total_private_repos of the organization response when    *)
(* it carries both fields, and the length of the aggregated repository     *)
(* list when it carries neither.                                           *)
C11_ReposCount ==
    (FileWritten /\ ReturnedSuccess) =>
        /\ (OrgCarries("public_repos") /\ OrgCarries("total_private_repos")) =>
              WrittenMetrics.repos =
                 Num(OrgField("public_repos").v + OrgField("total_private_repos").v)
        /\ (~OrgCarries("public_repos") /\ ~OrgCarries("total_private_repos")) =>
              WrittenMetrics.repos = Num(Len(ListServed))

\* an organization object without the counts, and a listing of several pages
C11_Witness ==
    /\ FileWritten
    /\ ReturnedSuccess
    /\ OrgServed = OrgSparse
    /\ Len(ListServed) > perPage
    /\ WrittenMetrics.repos = Num(Len(ListServed))

\* publicRepos + privateRepos of the returned metrics
ReturnedRepoCount ==
    Get(metricsPromise.value, "publicRepos").v
        + Get(metricsPromise.value, "privateRepos").v

(* C12, as stated: whenever the API calls succeed, publicRepos +           *)
(* privateRepos of the returned metrics equals the length of the           *)
(* repository list aggregated by pagination.                               *)
C12_SumIsListLength ==
    ReturnedSuccess => ReturnedRepoCount = Len(ListServed)

(* C12, amended: whenever the API calls succeed and the organization       *)
(* object carries neither public_repos nor total_private_repos,            *)
(* publicRepos + privateRepos of the returned metrics equals the length    *)
(* of the aggregated repository list.                                      *)
C12_SumIsListLengthWithoutCounts ==
    (/\ ReturnedSuccess
     /\ ~OrgCarries("public_repos")
     /\ ~OrgCarries("total_private_repos")) =>
        ReturnedRepoCount = Len(ListServed)

\* no counts in the organization object, a listing that ends on a short page
C12_Witness ==
    /\ ReturnedSuccess
    /\ ~OrgCarries("public_repos")
    /\ ~OrgCarries("total_private_repos")
    /\ Len(ListServed) % perPage = 37
    /\ ReturnedRepoCount = Len(ListServed)

\* The rows of a list that have been pushed to, in the order of the list.
WasPushed(row) == Get(row, "pushed_at") \notin {Null, Undefined}
PushedOf(rows) == SelectSeq(rows, WasPushed)
PushTime(row) == DateValue(Get(row, "pushed_at"))
\* the latest push time among pushed rows
LatestPushTime(pushed) ==
    LET times == {PushTime(row) : row \in {pushed[i] : i \in DOMAIN pushed}}
    IN CHOOSE t \in times : \A u \in times : u <= t
\* the pushed rows whose push time is t, in the order of the list
PushedAt(pushed, t) ==
    LET At(row) == PushTime(row) = t
    IN SelectSeq(pushed, At)
\* the first row of the list, in its order, pushed at the latest time
FirstPushedLatest(rows) ==
    LET pushed == PushedOf(rows)
    IN PushedAt(pushed, LatestPushTime(pushed))[1]

(* C13: on success, when some repository of the aggregated list has a      *)
(* non-null pushed_at, latestPushedRepository is the first repository in   *)
(* API order whose push timestamp is the maximum among those repositories, *)
(* and carries that repository's name, pushed_at and html_url unchanged.   *)
C13_LatestIsMostRecent ==
    ReturnedSuccess =>
        LET rows == ListServed
        IN PushedOf(rows) # <<>> =>
             LET latest == FirstPushedLatest(rows)
             IN Get(metricsPromise.value, "latestPushedRepository") =
                  Obj([name |-> Get(latest, "name"),
                       pushedAt |-> Get(latest, "pushed_at"),
                       htmlUrl |-> Get(latest, "html_url")])

\* two repositories share the latest push time, the first of them in API
\* order is reported, and the first row of the list was pushed earlier
C13_Witness ==
    /\ ReturnedSuccess
    /\ Len(api.pages) = 3
    /\ LET rows == ListServed
           pushed == PushedOf(rows)
           tied == PushedAt(pushed, LatestPushTime(pushed))
       IN /\ Len(tied) > 1
          /\ tied[2] # tied[1]
          /\ rows[1] # tied[1]
          /\ WasPushed(rows[1])
          /\ Get(Get(metricsPromise.value, "latestPushedRepository"), "name")
                = Get(tied[1], "name")
(* C14: if no repository of the aggregated list has a non-null pushed_at,  *)
(* the empty list included, the written metrics.latestRepository,          *)
(* metrics.latestCommit and sources.latestRepository are all null.         *)
C14_NoPushNoLatest ==
    (FileWritten /\ PushedOf(ListServed) = <<>>) =>
        /\ WrittenMetrics.latestRepository = Null
        /\ WrittenMetrics.latestCommit = Null
        /\ WrittenSources.latestRepository = Null

\* a successful run over a list of one repository that was never pushed to
C14_Witness ==
    /\ FileWritten
    /\ ReturnedSuccess
    /\ Len(ListServed) = 1
    /\ ~WasPushed(ListServed[1])
    /\ WrittenMetrics.repos.v > 0
    /\ WrittenMetrics.latestRepository = Null

\* A bearer token is present in the environment.
TokenPresent == token \notin {Undefined, Str("")}

(* C15: every request of the run, for the organization or for a page,      *)
(* carries the header Accept: application/vnd.github+json; when no token   *)
(* is present in the environment it carries no Authorization header, and   *)
(* when a token is present it carries the one header                       *)
(* Authorization: Bearer <token>.                                          *)
C15_AuthorizationFollowsToken ==
    \A i \in DOMAIN requests :
        LET headers == requests[i].headers
        IN /\ "Accept" \in DOMAIN headers
           /\ headers.Accept = "application/vnd.github+json"
           /\ ~TokenPresent => DOMAIN headers = {"Accept"}
           /\ TokenPresent =>
                /\ DOMAIN headers = {"Accept", "Authorization"}
                /\ headers.Authorization = <<"Bearer", token.v>>

\* a run with a token that requested the organization and three pages
C15_Witness ==
    /\ TokenPresent
    /\ Len(requests) = 4
    /\ \A i \in DOMAIN requests : requests[i].headers.Authorization[2] = "ghp_token"

\* The response the API gives to a request of the run.
ResponseTo(request) ==
    IF IsPageRequest(request) THEN api.pages[request.url.page] ELSE api.org

\* Some request the run has made is answered by a failure.
RequestedAndFailed ==
    \E i \in DOMAIN requests : RequestFails(ResponseTo(requests[i]))

(* C16: no retries. In every state of a run no URL has been requested      *)
(* twice: the organization URL at most once and each page number at most   *)
(* once, failed requests included; and a run in which a request failed     *)
(* returns the zeroed snapshot.                                            *)
C16_NoRetries ==
    /\ \A i, j \in DOMAIN requests :
          i # j => requests[i].url # requests[j].url
    /\ Len(SelectSeq(requests, IsPageRequest)) <= Len(api.pages)
    /\ (Returned /\ RequestedAndFailed) =>
          /\ ReturnedDegraded
          /\ \A k \in CountKeys : Get(metricsPromise.value, k) = Num(0)
          /\ Get(metricsPromise.value, "latestPushedRepository") = Null

\* the run has ended after the request of the third page failed; every
\* request before it succeeded
C16_Witness ==
    /\ ~process.running
    /\ Len(requests) = 4
    /\ RequestFails(ResponseTo(requests[4]))
    /\ \A i \in 1..3 : ~RequestFails(ResponseTo(requests[i]))
    /\ ReturnedDegraded

\* A response with a success status whose body is malformed for the request
\* it answers: not JSON at all, an organization that is not an object, or
\* a page that is not an array.
Malformed(request, response) ==
    /\ response.kind = "response"
    /\ response.status \in 200..299
    /\ LET data == JsonParse(response.body)
       IN \/ data.t = "not_json"
          \/ IsPageRequest(request) /\ data.t # "array"
          \/ ~IsPageRequest(request) /\ data.t # "object"

RequestedAndMalformed ==
    \E i \in DOMAIN requests : Malformed(requests[i], ResponseTo(requests[i]))

IsWarnLine(line) == line.level = "warn"

(* C17: a malformed response (a body that is not valid JSON, an            *)
(* organization response that is not an object, a page response that is    *)
(* not an array) is recovered inside fetchOrgMetrics: the value returned    *)
(* is the zeroed metrics with an error field, and a warning is logged.     *)
C17_MalformedIsRecovered ==
    (Returned /\ RequestedAndMalformed) =>
        /\ ReturnedDegraded
        /\ \A k \in CountKeys : Get(metricsPromise.value, k) = Num(0)
        /\ Len(SelectSeq(console, IsWarnLine)) = 1

-----------------------------------------------------------------------------
(* The value of a run as a function of the responses of the API alone: what *)
(* fetchOrgMetrics returns when the organization request is settled before *)
(* the page requests.                                                      *)

OrgCount(k, fallback) == IF OrgCarries(k) THEN OrgField(k) ELSE Num(fallback)

LatestOf(rows) ==
    IF PushedOf(rows) = <<>> THEN Null
    ELSE LET latest == FirstPushedLatest(rows)
         IN Obj([name |-> Get(latest, "name"),
                 pushedAt |-> Get(latest, "pushed_at"),
                 htmlUrl |-> Get(latest, "html_url")])

ValueOfSuccess ==
    LET rows == ListServed
    IN Obj([organization |-> Str("abstract-data"),
            publicRepos |-> OrgCount("public_repos", Len(rows)),
            privateRepos |-> OrgCount("total_private_repos", 0),
            followers |-> OrgCount("followers", 0),
            members |-> OrgCount("public_members", 0),
            totalStars |-> Num(SumOverRows(rows, "stargazers_count")),
            totalForks |-> Num(SumOverRows(rows, "forks_count")),
            latestPushedRepository |-> LatestOf(rows)])

ZeroSnapshot(message) ==
    Obj([organization |-> Str("abstract-data"),
         publicRepos |-> Num(0), privateRepos |-> Num(0),
         followers |-> Num(0), members |-> Num(0),
         totalStars |-> Num(0), totalForks |-> Num(0),
         latestPushedRepository |-> Null,
         error |-> message])

OrgFails == RequestFails(api.org)
SomePageFails == \E i \in DOMAIN api.pages : RequestFails(api.pages[i])
FailingPage == CHOOSE i \in DOMAIN api.pages : RequestFails(api.pages[i])

\* the messages of the failure of the organization request and of a page
OrgFailure == FetchJson(OrgUrl, api.org).reason.message
PageFailure == FetchJson(ReposUrl(FailingPage), api.pages[FailingPage]).reason.message

ValueOrgFirst ==
    IF OrgFails THEN ZeroSnapshot(OrgFailure)
    ELSE IF SomePageFails THEN ZeroSnapshot(PageFailure)
    ELSE IF OrgServed = Null
         THEN ZeroSnapshot(Str("Cannot read properties of null (reading 'public_repos')"))
         ELSE ValueOfSuccess

\* the metrics and sources sections main writes for a returned value
MetricsSectionOf(value) ==
    LET latest == value.f.latestPushedRepository
    IN Obj([repos |-> Num(value.f.publicRepos.v + value.f.privateRepos.v),
            followers |-> value.f.followers,
            members |-> value.f.members,
            totalStars |-> value.f.totalStars,
            totalForks |-> value.f.totalForks,
            latestCommit |-> IF latest = Null THEN Null ELSE latest.f.pushedAt,
            latestRepository |-> IF latest = Null THEN Null ELSE latest.f.name])

SourcesSectionOf(value) ==
    LET latest == value.f.latestPushedRepository
    IN Obj([github |-> Str("https://github.com/abstract-data"),
            latestRepository |-> IF latest = Null THEN Null ELSE latest.f.htmlUrl])

WrittenAsFor(value) ==
    /\ disk.file.doc.f.metrics = MetricsSectionOf(value)
    /\ disk.file.doc.f.sources = SourcesSectionOf(value)

(* C18, as stated: for fixed API responses every interleaving of the       *)
(* organization request and the page requests produces the same returned   *)
(* metrics value, the one of the run in which the organization request     *)
(* settles first, and the same written metrics and sources sections.       *)
C18_OrderImmaterial ==
    /\ Returned => metricsPromise.value = ValueOrgFirst
    /\ FileWritten => WrittenAsFor(ValueOrgFirst)

(* C18, amended: for fixed API responses every interleaving produces the   *)
(* same written metrics and sources sections and the same returned value,  *)
(* except for the error message when both the organization request and a   *)
(* page request fail: the message is then that of either failure.          *)
C18_OrderImmaterialButError ==
    /\ Returned =>
         IF OrgFails /\ SomePageFails
         THEN metricsPromise.value
                \in {ZeroSnapshot(OrgFailure), ZeroSnapshot(PageFailure)}
         ELSE metricsPromise.value = ValueOrgFirst
    /\ FileWritten => WrittenAsFor(ValueOrgFirst)

\* both operations fail, the page request after a full page, and the value
\* returned carries the message of the page failure; the file is written
C18_Witness ==
    /\ Returned
    /\ FileWritten
    /\ OrgFails
    /\ SomePageFails
    /\ Len(api.pages) > 1
    /\ OrgFailure # PageFailure
    /\ metricsPromise.value = ZeroSnapshot(PageFailure)

\* The organization object has no value for the field: absent, or null.
OrgMisses(k) == Get(OrgServed, k) \in {Undefined, Null}

(* C19: the count fallbacks are nullish, not falsy. On success publicRepos *)
(* is public_repos of the organization object whenever the object has     *)
(* that field, an explicit 0 included, and the length of the repository    *)
(* list only when the field is missing; privateRepos, followers and        *)
(* members are the organization's total_private_repos, followers and       *)
(* public_members, and 0 only when the field is missing.                   *)
C19_FallbackOnlyWhenMissing ==
    ReturnedSuccess =>
        LET value == metricsPromise.value.f
        IN /\ value.publicRepos =
                IF OrgMisses("public_repos") THEN Num(Len(ListServed))
                ELSE OrgServed.f.public_repos
           /\ value.privateRepos =
                IF OrgMisses("total_private_repos") THEN Num(0)
                ELSE OrgServed.f.total_private_repos
           /\ value.followers =
                IF OrgMisses("followers") THEN Num(0) ELSE OrgServed.f.followers
           /\ value.members =
                IF OrgMisses("public_members") THEN Num(0)
                ELSE OrgServed.f.public_members

\* an organization object with public_repos: 0 and a list of several pages
C19_Witness ==
    /\ ReturnedSuccess
    /\ ~OrgMisses("public_repos")
    /\ OrgServed.f.public_repos = Num(0)
    /\ Len(ListServed) > perPage
    /\ metricsPromise.value.f.publicRepos = Num(0)

(* C20: the output file is fully overwritten. When main has completed,     *)
(* the file holds exactly the keys generatedAt, systems, metrics and       *)
(* sources: the timestamp of this run, the static systems list and the     *)
(* sections computed from the metrics this run returned, whatever the      *)
(* file held when the run started.                                         *)
C20_FileFullyOverwritten ==
    mainPromise.state = "fulfilled" =>
        /\ disk.file.t = "json_text"
        /\ DOMAIN disk.file.doc.f = {"generatedAt", "systems", "metrics", "sources"}
        /\ disk.file.doc.f.generatedAt.t = "string"
        /\ disk.file.doc.f.generatedAt.v \in Clock
        /\ disk.file.doc.f.systems = Systems
        /\ WrittenAsFor(metricsPromise.value)

\* the run found a file left by an earlier run and has replaced it
C20_Witness ==
    /\ mainPromise.state = "fulfilled"
    /\ diskAtStart.file = StaleFile
    /\ "stale" \in DOMAIN diskAtStart.file.doc.f
    /\ disk.file # diskAtStart.file
    /\ "stale" \notin DOMAIN disk.file.doc.f
    /\ ReturnedSuccess

-----------------------------------------------------------------------------
\* A document without its generatedAt field.
WithoutGeneratedAt(doc) ==
    [k \in DOMAIN doc.f \ {"generatedAt"} |-> doc.f[k]]

\* The names of the systems section of a document, in order.
SystemNames(doc) ==
    [i \in DOMAIN doc.f.systems.items |-> doc.f.systems.items[i].f.name.v]

(* C21: serialization is idempotent. When main has completed, serializing  *)
(* the payload of the same metrics again, at any time of the clock, gives  *)
(* the document that was written except for generatedAt; and the systems   *)
(* section is the static list of the two systems whatever the API served.  *)
C21_SameMetricsSameDocument ==
    mainPromise.state = "fulfilled" =>
        /\ \A now \in Clock :
              LET again == Stringify(BuildPayload(metricsPromise.value, now))
              IN /\ again.t = disk.file.t
                 /\ WithoutGeneratedAt(again.doc) = WithoutGeneratedAt(disk.file.doc)
                 /\ again.doc.f.generatedAt = Str(now)
        /\ SystemNames(disk.file.doc)
              = <<"Quantum Core Labs", "Campaign Intelligence Grid">>

\* a degraded run and no earlier file: the document written at one time of
\* the clock differs from the one of the other time
C21_Witness ==
    /\ mainPromise.state = "fulfilled"
    /\ ReturnedDegraded
    /\ diskAtStart.file = NoFile
    /\ \E now \in Clock :
          disk.file # Stringify(BuildPayload(metricsPromise.value, now))
    /\ WrittenMetrics.latestCommit = Null

-----------------------------------------------------------------------------
\* The pages whose request has resolved: those before the current page, and
\* the current page once listOrgRepos has settled.
PagesResolved ==
    IF requests = <<>> THEN 0
    ELSE IF Settled(listPromise) THEN page ELSE page - 1

\* The page requests that have not resolved yet.
PagesInFlight == Len(PageRequests) - PagesResolved

(* C22: page requests are sequential and consecutive. The pages requested  *)
(* so far are 1, 2, ..., n, each once; at most one page request is in      *)
(* flight; and every page before the last one requested has resolved with  *)
(* exactly 100 rows, which are in the list when the next page is awaited.  *)
C22_PagesOneAtATime ==
    /\ PagesRequestedInOrder
    /\ PagesInFlight \in {0, 1}
    /\ requests # <<>> => Len(PageRequests) = page
    /\ \A p \in 1..(Len(PageRequests) - 1) :
          /\ IsFullPage(api.pages[p])
          /\ Len(RowsServed(api.pages[p])) = 100
    /\ listPromise.state = "pending" => Len(repos) = 100 * (page - 1)

\* the third page is awaited: two pages have resolved, 200 rows are kept
C22_Witness ==
    /\ listPromise.state = "pending"
    /\ Len(PageRequests) = 3
    /\ PagesInFlight = 1
    /\ Len(repos) = 200
    /\ orgPromise.state = "pending"

(* C23: the two operations are joined before proceeding. When              *)
(* fetchOrgMetrics has returned on the success path, the organization      *)
(* request and the listing have both resolved, no page request is in       *)
(* flight, and the value joined is the pair of their results; the file is  *)
(* written only after fetchOrgMetrics has returned.                        *)
C23_JoinedBeforeProceeding ==
    /\ ReturnedSuccess =>
          /\ orgPromise.state = "fulfilled"
          /\ listPromise.state = "fulfilled"
          /\ PagesInFlight = 0
          /\ Len(PageRequests) = Len(api.pages)
          /\ allPromise = Fulfilled(<<orgPromise.value, listPromise.value>>)
    /\ FileWritten => Returned
    /\ (metricsPromise.state = "pending" /\ ~Settled(allPromise)) => console = <<>>

\* a successful run over three pages has written the file
C23_Witness ==
    /\ ReturnedSuccess
    /\ FileWritten
    /\ Len(PageRequests) = 3
    /\ Len(listPromise.value) > 2 * perPage
    /\ WrittenMetrics.totalStars.v > 0

\* The organization request has failed and fetchOrgMetrics has returned the
\* degraded value.
AbortedByOrganization == orgPromise.state = "rejected" /\ ReturnedDegraded

(* C24: a failure aborts the whole aggregation attempt. Once the           *)
(* organization request has failed and fetchOrgMetrics has returned the    *)
(* degraded value, no step issues a further page request, and no step      *)
(* leaves the output file written while a page request is in flight.       *)
C24_FailureAbortsListing ==
    [][AbortedByOrganization =>
         /\ requests' = requests
         /\ FileWritten' => PagesInFlight' = 0]_vars

-----------------------------------------------------------------------------
\* The error fetchJson raises for a response outside the success range: it
\* names the URL, the status and the body as the text it is.
StatusError(url, response) ==
    Err("Error",
        Template(<<"Failed request ", url, " -> ", response.status, ": ",
                   response.body>>))

\* What the status check of fetchJson makes of `response`, `outcome` being
\* the promise the call settled.
StatusHandled(url, response, outcome) ==
    response.kind = "response" =>
        IF response.status < 200 \/ response.status > 299
        THEN outcome = Rejected(StatusError(url, response))
        ELSE /\ outcome.state = "rejected" => outcome.reason.name = "SyntaxError"
             /\ outcome.state = "fulfilled" => JsonParse(response.body) # NotJson

(* C25: every response whose status is outside 200..299 makes fetchJson    *)
(* raise an error naming the URL, the status and the body text, the body   *)
(* being read as text and not parsed; a response with a status in          *)
(* 200..299 is never rejected by the status check: it is fulfilled with    *)
(* the parsed body, or rejected by the parser only.                        *)
C25_StatusCheck ==
    /\ Settled(orgPromise) =>
          /\ StatusHandled(OrgUrl, api.org, orgPromise)
          /\ orgPromise.state = "fulfilled" =>
                orgPromise.value = JsonParse(api.org.body)
    /\ listPromise.state = "rejected" =>
          StatusHandled(ReposUrl(page), api.pages[page], listPromise)
    /\ listPromise.state = "fulfilled" =>
          /\ api.pages[page].kind = "response"
          /\ api.pages[page].status \in 200..299
          /\ JsonParse(api.pages[page].body) # NotJson

\* the organization is answered 404 with a JSON body and a page 403: both
\* errors carry the body as text
C25_Witness ==
    /\ orgPromise.state = "rejected"
    /\ api.org = Http(404, "message: Not Found")
    /\ orgPromise.reason.message.parts[6] = "message: Not Found"
    /\ listPromise.state = "rejected"
    /\ page > 1
    /\ api.pages[page] = Http(403, "message: API rate limit exceeded")
    /\ listPromise.reason.message.parts[4] = 403

\* The warnings logged so far.
Warnings == SelectSeq(console, IsWarnLine)

(* C26: on abort exactly one warning is emitted, it carries the error      *)
(* message, and the error field of the value returned is that same         *)
(* message; no warning is emitted before fetchOrgMetrics leaves its try    *)
(* block, and on a successful aggregation no warning is emitted and the    *)
(* value returned has no error field.                                      *)
C26_OneWarningOnAbort ==
    /\ ReturnedDegraded =>
          /\ Len(Warnings) = 1
          /\ IsString(Warnings[1].detail)
          /\ Warnings[1].detail # Str("")
          /\ metricsPromise.value.f.error = Warnings[1].detail
    /\ ReturnedSuccess => Warnings = <<>>
    /\ ~Returned => Warnings = <<>>

\* the organization is answered null: both requests succeed, the try block
\* raises, one warning carries the message of the TypeError
C26_Witness ==
    /\ ReturnedDegraded
    /\ allPromise.state = "fulfilled"
    /\ OrgServed = Null
    /\ Len(Warnings) = 1
    /\ Warnings[1].detail = metricsPromise.value.f.error
    /\ ~process.running

(* C27: when the organization request and a page request both fail, the    *)
(* error of the degraded value is the message of the failure that comes    *)
(* first: the value is returned while only one of the two has failed and   *)
(* carries its message; the later failure changes neither the value        *)
(* returned nor the warnings logged; and the process exits non-zero only   *)
(* when writing the file failed.                                           *)
C27_FirstFailureWins ==
    [][/\ Returned =>
            /\ metricsPromise' = metricsPromise
            /\ Warnings' = Warnings
       /\ (orgPromise'.state = "rejected" /\ listPromise'.state = "rejected") =>
            Returned'
       /\ (Returned' /\ orgPromise'.state = "rejected"
                     /\ listPromise'.state # "rejected") =>
            Get(metricsPromise'.value, "error") = orgPromise'.reason.message
       /\ (Returned' /\ listPromise'.state = "rejected"
                     /\ orgPromise'.state # "rejected") =>
            Get(metricsPromise'.value, "error") = listPromise'.reason.message
       /\ (~process'.running /\ process'.code # 0) =>
            /\ mainPromise'.state = "rejected"
            /\ mainPromise'.reason \in FsErrors]_vars

\* a page failed first and the organization request after it: the run ended
\* with status 0, one warning and the message of the page failure
C27_Witness ==
    /\ ~process.running
    /\ process.code = 0
    /\ orgPromise.state = "rejected"
    /\ listPromise.state = "rejected"
    /\ orgPromise.reason # listPromise.reason
    /\ Get(metricsPromise.value, "error") = listPromise.reason.message
    /\ Len(Warnings) = 1
    /\ FileWritten

\* A page answered with a success status and a JSON body that is not an
\* array.
IsNonArrayPage(response) ==
    /\ response.kind = "response"
    /\ response.status \in 200..299
    /\ JsonParse(response.body).t \notin {"not_json", "array"}

(* C28: a page answered with a success status and a parsed body that is    *)
(* not an array ends the list and is not a failure: listOrgRepos does not  *)
(* raise, it returns the rows of the earlier pages after one request per   *)
(* page served, and when the organization request succeeds the             *)
(* aggregation returns on the success path with no error field.            *)
C28_NonArrayPageEndsList ==
    IsNonArrayPage(LastPage) =>
        /\ listPromise.state # "rejected"
        /\ Len(PageRequests) <= Len(api.pages)
        /\ listPromise.state = "fulfilled" =>
              /\ Len(PageRequests) = Len(api.pages)
              /\ listPromise.value =
                    RowsOfPages(SubSeq(api.pages, 1, Len(api.pages) - 1))
        /\ (Returned /\ ~OrgFails /\ OrgServed # Null) =>
              /\ "error" \notin DOMAIN metricsPromise.value.f
              /\ Get(metricsPromise.value, "totalStars") =
                    Num(SumOverRows(RowsOfPages(SubSeq(api.pages, 1, Len(api.pages) - 1)),
                                    "stargazers_count"))
              /\ Warnings = <<>>

\* a full page and then an object: the 100 rows are kept, the run succeeds
C28_Witness ==
    /\ IsNonArrayPage(LastPage)
    /\ Len(api.pages) = 2
    /\ listPromise.state = "fulfilled"
    /\ Len(listPromise.value) = perPage
    /\ ReturnedSuccess
    /\ FileWritten
    /\ WrittenMetrics.totalStars.v > 0

\* The three fields of the written payload that refer to the latest
\* repository are those of `row`.
LatestFieldsFrom(row) ==
    /\ WrittenMetrics.latestCommit = Get(row, "pushed_at")
    /\ WrittenMetrics.latestRepository = Get(row, "name")
    /\ WrittenSources.latestRepository = Get(row, "html_url")

LatestFieldsAllNull ==
    /\ WrittenMetrics.latestCommit = Null
    /\ WrittenMetrics.latestRepository = Null
    /\ WrittenSources.latestRepository = Null

(* C29: in every written payload, success or degraded, metrics.latestCommit, *)
(* metrics.latestRepository and sources.latestRepository are all null, or  *)
(* they are the pushed_at, name and html_url of one and the same           *)
(* repository of the list, which has been pushed to.                       *)
C29_LatestFieldsAgree ==
    FileWritten =>
        \/ LatestFieldsAllNull
        \/ LET rows == ListServed
           IN \E row \in {rows[i] : i \in DOMAIN rows} :
                /\ WasPushed(row)
                /\ LatestFieldsFrom(row)

\* two repositories share the latest push time: the three fields are those
\* of one of them, and the name and URL are not those of the other
C29_Witness ==
    /\ FileWritten
    /\ ReturnedSuccess
    /\ LatestFieldsFrom(RepoGamma)
    /\ \E i \in 1..3 : ListServed[i] = RepoDelta
    /\ Get(RepoDelta, "pushed_at") = WrittenMetrics.latestCommit
    /\ ~LatestFieldsFrom(RepoDelta)

====
